---- MODULE Spec2Model ----
(***************************************************************************)
(* Model of src/app/index.tsx: the camera screen of rnvc-test.             *)
(*                                                                         *)
(* The file holds two CameraScreen components (lines 52-465 and 650-1055). *)
(* `variant` says which one is mounted: 1 is the first (it sizes the       *)
(* preview with the getAspectRatio callback), 2 is the second (it sizes    *)
(* the preview with the aspectRatio memo and re-keys the camera).          *)
(*                                                                         *)
(* Lengths are exact rationals.  Every length the code computes is a       *)
(* screen extent multiplied or divided by 16/9 or 9/16, so a length is     *)
(* kept as an integer number of 1/Scale pixels with Scale = 9 * 16: for    *)
(* integer screen extents every product and quotient is then exact.        *)
(*                                                                         *)
(* Three specifications share the variables:                               *)
(*   SpecCalc  the inputs are drawn and the pure functions are evaluated;  *)
(*   Spec      the mounted screen: orientation effect, window size, mode   *)
(*             selection, what the host supplies, unmount;                 *)
(*   SpecRec   the mounted screen with its camera rendered: recording,     *)
(*             stopping, mode selection, orientation events.               *)
(***************************************************************************)
EXTENDS Integers, Naturals, Sequences, FiniteSets, TLC

VARIABLES
    variant,            \* which CameraScreen of the file is mounted (1 or 2)
    screenWidth,        \* Dimensions.get("window").width, in pixels
    screenHeight,       \* Dimensions.get("window").height, in pixels
    selectedMode,       \* useState<VideoMode>("vertical")
    deviceOrientation,  \* useState<Orientation>(PORTRAIT_UP)
    isRecording,        \* useState(false)
    error,              \* useState<string | null>(null), first screen only
    cameraKey,          \* useState(0), second screen only
    aspectRatio,        \* the memoised viewport handed to <Camera style>
    mounted,            \* the component is mounted (its effects are live)
    setupPc,            \* position of the async setupOrientation
    subscription,       \* the effect's `let subscription` is defined
    listenerRegistered, \* ScreenOrientation holds this screen's listener
    timers,             \* pending setTimeout(.., 100) cameraKey bumps
    orientationGuidance,\* the memoised guidance text
    hasPermission,      \* useCameraPermission().hasPermission
    device,             \* useCameraDevice("back") returned a device
    isFocused,          \* navigation.isFocused()
    appState,           \* useAppState()
    camRecording,       \* the camera has a recording in progress
    stops,              \* callers of the pending camera.stopRecording() promises
    videos,             \* paths of the videos the camera reported as finished
    saved,              \* paths passed to MediaLibrary.saveToLibraryAsync
    alert               \* the last Alert.alert shown

\* what the host supplies to the render
hostVars == <<hasPermission, device, isFocused, appState>>

\* the camera, the media library and the alert dialog
camVars == <<camRecording, stops, videos, saved, alert>>

vars == <<variant, screenWidth, screenHeight, selectedMode, deviceOrientation,
          isRecording, error, cameraKey, aspectRatio, mounted, setupPc,
          subscription, listenerRegistered, timers, orientationGuidance,
          hostVars, camVars>>

----------------------------------------------------------------------------
(* Bounds *)

\* screen extents of the calculator specification range over 1..MaxDim
MaxDim == 16

\* screen extents of the component specification range over 1..MaxScreen
MaxScreen == 3

\* cameraKey is counted up to MaxCameraKey
MaxCameraKey == 2

\* at most MaxTimers cameraKey bumps are pending at once
MaxTimers == 2

\* at most MaxStops camera.stopRecording() promises are pending at once
MaxStops == 2

\* the camera records at most MaxVideos videos
MaxVideos == 2

----------------------------------------------------------------------------
(* Types and tables *)

VideoMode == {"vertical", "horizontal", "square"}

Orientation ==
    {"UNKNOWN", "PORTRAIT_UP", "PORTRAIT_DOWN", "LANDSCAPE_LEFT", "LANDSCAPE_RIGHT"}

Variants == {1, 2}

NoError == "null"

OrientationError == "Failed to configure device orientation"

RecordingErrorText == "Recording error"

StartErrorText == "Failed to start recording"

StopErrorText == "Failed to stop recording"

PermissionError == "Failed to request camera permission"

Errors == {NoError, OrientationError, RecordingErrorText, StartErrorText,
           StopErrorText, PermissionError}

NoAlert == "none"

RecordingErrorAlert == "Recording Error"

StartErrorAlert == "Error"

SavedAlert == "Recording Saved"

\* denominator of the fixed-point lengths
Scale == 9 * 16

\* a screen extent in pixels as a length
Px(n) == n * Scale

\* Times with the ratio inverted: the length is divided by the ratio
Times_Divides(x, r) == (x * r.den) \div r.num

\* x * r for a ratio r = num/den
Times(x, r) == (x * r.num) \div r.den

\* Over with the ratio inverted: the length is multiplied by the ratio
Over_Multiplies(x, r) == (x * r.num) \div r.den

\* x / r for a ratio r = num/den
Over(x, r) == (x * r.den) \div r.num

Min(a, b) == IF a < b THEN a ELSE b

\* VIDEO_MODES with the two ratios of vertical exchanged
VIDEO_MODES_VerticalSwapped ==
    [vertical   |-> [name |-> "Vertical",
                     portraitRatio  |-> [num |-> 9,  den |-> 16],
                     landscapeRatio |-> [num |-> 16, den |-> 9]],
     horizontal |-> [name |-> "Horizontal",
                     portraitRatio  |-> [num |-> 9,  den |-> 16],
                     landscapeRatio |-> [num |-> 16, den |-> 9]],
     square     |-> [name |-> "Square",
                     portraitRatio  |-> [num |-> 1, den |-> 1],
                     landscapeRatio |-> [num |-> 1, den |-> 1]]]

\* VIDEO_MODES with vertical's portraitRatio copied to horizontal
VIDEO_MODES_HorizontalPortraitCopied ==
    [vertical   |-> [name |-> "Vertical",
                     portraitRatio  |-> [num |-> 16, den |-> 9],
                     landscapeRatio |-> [num |-> 9,  den |-> 16]],
     horizontal |-> [name |-> "Horizontal",
                     portraitRatio  |-> [num |-> 16, den |-> 9],
                     landscapeRatio |-> [num |-> 16, den |-> 9]],
     square     |-> [name |-> "Square",
                     portraitRatio  |-> [num |-> 1, den |-> 1],
                     landscapeRatio |-> [num |-> 1, den |-> 1]]]

\* VIDEO_MODES with a 4:3 landscapeRatio for horizontal
VIDEO_MODES_HorizontalFourThirds ==
    [vertical   |-> [name |-> "Vertical",
                     portraitRatio  |-> [num |-> 16, den |-> 9],
                     landscapeRatio |-> [num |-> 9,  den |-> 16]],
     horizontal |-> [name |-> "Horizontal",
                     portraitRatio  |-> [num |-> 9,  den |-> 16],
                     landscapeRatio |-> [num |-> 4,  den |-> 3]],
     square     |-> [name |-> "Square",
                     portraitRatio  |-> [num |-> 1, den |-> 1],
                     landscapeRatio |-> [num |-> 1, den |-> 1]]]

\* lines 632-648 hold the same table for the second screen
VIDEO_MODES ==
    [vertical   |-> [name |-> "Vertical",
                     portraitRatio  |-> [num |-> 16, den |-> 9],
                     landscapeRatio |-> [num |-> 9,  den |-> 16]],
     horizontal |-> [name |-> "Horizontal",
                     portraitRatio  |-> [num |-> 9,  den |-> 16],
                     landscapeRatio |-> [num |-> 16, den |-> 9]],
     square     |-> [name |-> "Square",
                     portraitRatio  |-> [num |-> 1, den |-> 1],
                     landscapeRatio |-> [num |-> 1, den |-> 1]]]

\* isLandscape counting every orientation that is not portrait as landscape
isLandscape_NotPortrait(o) == ~(o = "PORTRAIT_UP" \/ o = "PORTRAIT_DOWN")

\* lines 690-695 hold the same memo for the second screen
isLandscape(o) == o = "LANDSCAPE_LEFT" \/ o = "LANDSCAPE_RIGHT"

\* isPortrait counting every orientation that is not landscape as portrait
isPortrait_NotLandscape(o) == ~(o = "LANDSCAPE_LEFT" \/ o = "LANDSCAPE_RIGHT")

isPortrait(o) == o = "PORTRAIT_UP" \/ o = "PORTRAIT_DOWN"

\* first screen: the getOrientationGuidance callback
getOrientationGuidance(mode, portrait, landscape) ==
    CASE mode = "vertical" ->
            IF ~portrait THEN "Rotate to portrait for optimal vertical video"
                         ELSE ""
      [] mode = "horizontal" ->
            IF ~landscape THEN "Rotate to landscape for optimal horizontal video"
                          ELSE ""
      [] mode = "square" -> ""

\* second screen: the body of the orientationGuidance memo
orientationGuidanceMemo(mode) ==
    CASE mode = "vertical" -> "Rotate to portrait for optimal vertical video"
      [] mode = "horizontal" -> "Rotate to landscape for optimal horizontal video"
      [] mode = "square" ->
            "Hold the phone in portrait mode for optimal square video"

\* the guidance of the mounted screen
Guidance(v, mode, o) ==
    IF v = 1 THEN getOrientationGuidance(mode, isPortrait(o), isLandscape(o))
             ELSE orientationGuidanceMemo(mode)

\* the value of orientationGuidance before any evaluation
GuidanceNotEvaluated == "not evaluated"

\* the value of aspectRatio before any evaluation (calculator specification)
NotEvaluated == [width |-> 0, height |-> 0]

----------------------------------------------------------------------------
(* The two viewport calculators *)

\* first screen: the getAspectRatio callback
getAspectRatio(mode, landscape, sw, sh) ==
    LET screenW == Px(sw)
        screenH == Px(sh)
        modeConfig == VIDEO_MODES[mode]
    IN  IF landscape
        THEN IF mode = "vertical"
             THEN [width  |-> Times(screenH, modeConfig.landscapeRatio),
                   height |-> screenH]
             ELSE IF mode = "horizontal"
             THEN LET widthConstrainedHeight == Over(screenW, modeConfig.landscapeRatio)
                      heightConstrainedWidth == Times(screenH, modeConfig.landscapeRatio)
                  IN  IF widthConstrainedHeight > screenH
                      THEN [width |-> heightConstrainedWidth, height |-> screenH]
                      ELSE [width |-> screenW, height |-> widthConstrainedHeight]
             ELSE [width |-> screenH, height |-> screenH]
        ELSE IF mode = "vertical"
             THEN [width  |-> screenW,
                   height |-> Times(screenW, modeConfig.portraitRatio)]
             ELSE IF mode = "horizontal"
             THEN [width  |-> screenW,
                   height |-> Times(screenW, modeConfig.portraitRatio)]
             ELSE [width |-> screenW, height |-> screenW]

\* second screen: the body of the aspectRatio memo
aspectRatioMemo(mode, landscape, sw, sh) ==
    LET screenW == Px(sw)
        screenH == Px(sh)
        modeConfig == VIDEO_MODES[mode]
    IN  IF landscape
        THEN IF mode = "vertical"
             THEN [width  |-> Times(screenH, modeConfig.landscapeRatio),
                   height |-> screenH]
             ELSE IF mode = "horizontal"
             THEN LET widthConstrainedHeight == Over(screenW, modeConfig.landscapeRatio)
                      heightConstrainedWidth == Times(screenH, modeConfig.landscapeRatio)
                  IN  IF widthConstrainedHeight > screenH
                      THEN [width |-> heightConstrainedWidth, height |-> screenH]
                      ELSE [width |-> screenW, height |-> widthConstrainedHeight]
             ELSE LET size == Min(screenW, screenH)
                  IN  [width |-> size, height |-> size]
        ELSE IF mode = "vertical"
             THEN [width  |-> screenW,
                   height |-> Times(screenW, modeConfig.portraitRatio)]
             ELSE IF mode = "horizontal"
             THEN [width  |-> screenW,
                   height |-> Times(screenW, modeConfig.portraitRatio)]
             ELSE LET size == Min(screenW, screenH)
                  IN  [width |-> size, height |-> size]

\* the calculator of the mounted screen
Viewport(v, mode, landscape, sw, sh) ==
    IF v = 1 THEN getAspectRatio(mode, landscape, sw, sh)
             ELSE aspectRatioMemo(mode, landscape, sw, sh)

----------------------------------------------------------------------------
(* Calculator specification: the inputs are drawn by Init, the actions     *)
(* evaluate the calculator of the drawn screen.                            *)

InitCalc ==
    /\ variant \in Variants
    /\ screenWidth \in 1..MaxDim
    /\ screenHeight \in 1..MaxDim
    /\ selectedMode \in VideoMode
    /\ deviceOrientation \in Orientation
    /\ isRecording \in BOOLEAN
    /\ error \in (IF variant = 1 THEN Errors ELSE {NoError})
    /\ cameraKey = 0
    /\ aspectRatio = NotEvaluated
    /\ mounted = TRUE
    /\ setupPc = "done"
    /\ subscription = TRUE
    /\ listenerRegistered = TRUE
    /\ timers = 0
    /\ orientationGuidance = GuidanceNotEvaluated
    /\ hasPermission = TRUE
    /\ device = TRUE
    /\ isFocused = TRUE
    /\ appState = "active"
    /\ camRecording = isRecording
    /\ stops = <<>>
    /\ videos = <<>>
    /\ saved = <<>>
    /\ alert = NoAlert

\* EvalGetAspectRatio clearing the error state while it computes
EvalGetAspectRatio_ClearsError ==
    /\ variant = 1
    /\ aspectRatio' = getAspectRatio(selectedMode, isLandscape(deviceOrientation),
                                     screenWidth, screenHeight)
    /\ error' = NoError
    /\ UNCHANGED <<variant, screenWidth, screenHeight, selectedMode,
                   deviceOrientation, isRecording, cameraKey, mounted,
                   setupPc, subscription, listenerRegistered, timers,
                   orientationGuidance, hostVars, camVars>>

EvalGetAspectRatio ==
    /\ variant = 1
    /\ aspectRatio' = getAspectRatio(selectedMode, isLandscape(deviceOrientation),
                                     screenWidth, screenHeight)
    /\ UNCHANGED <<variant, screenWidth, screenHeight, selectedMode,
                   deviceOrientation, isRecording, error, cameraKey, mounted,
                   setupPc, subscription, listenerRegistered, timers,
                   orientationGuidance, hostVars, camVars>>

EvalAspectRatioMemo ==
    /\ variant = 2
    /\ aspectRatio' = aspectRatioMemo(selectedMode, isLandscape(deviceOrientation),
                                      screenWidth, screenHeight)
    /\ UNCHANGED <<variant, screenWidth, screenHeight, selectedMode,
                   deviceOrientation, isRecording, error, cameraKey, mounted,
                   setupPc, subscription, listenerRegistered, timers,
                   orientationGuidance, hostVars, camVars>>

\* the guidance memo of the drawn screen is evaluated
EvalOrientationGuidance ==
    /\ orientationGuidance' = Guidance(variant, selectedMode, deviceOrientation)
    /\ UNCHANGED <<variant, screenWidth, screenHeight, selectedMode,
                   deviceOrientation, isRecording, error, cameraKey,
                   aspectRatio, mounted, setupPc, subscription,
                   listenerRegistered, timers, hostVars, camVars>>

NextCalc == EvalGetAspectRatio \/ EvalAspectRatioMemo \/ EvalOrientationGuidance

SpecCalc == InitCalc /\ [][NextCalc]_vars

----------------------------------------------------------------------------
(* Component specification: one mounted CameraScreen, its orientation      *)
(* effect, the host's screen and the user's mode selection.  A handler     *)
(* that sets state is followed by React's re-render, which is part of the  *)
(* action; a state update on an unmounted component is dropped.            *)

\* the re-render's useMemo: the viewport is recomputed only when one of the
\* dependencies [selectedMode, isLandscape] differs from the last render
Render(mode, orientation) ==
    IF mode = selectedMode
       /\ isLandscape(orientation) = isLandscape(deviceOrientation)
    THEN aspectRatio
    ELSE Viewport(variant, mode, isLandscape(orientation), screenWidth, screenHeight)

isActive == isFocused /\ appState = "active"

\* renderCameraContent returns the camera view and the controls rather than
\* the permission request
CameraContentRendered == device /\ hasPermission

\* camera.current is set: the <Camera> element is rendered
CameraRef == mounted /\ CameraContentRendered

\* what happens to a recording in progress when its <Camera> is destroyed
TeardownOutcomes == {"silent", "error", "finished"}

\* the path of the next video file
NextPath == Len(videos) + 1

\* the <Camera> of a recording in progress is destroyed (re-keyed, no longer
\* rendered or unmounted): the recording ends, with no callback, with
\* onRecordingError or with onRecordingFinished
CameraDestroyed(outcome, stillMounted) ==
    /\ camRecording' = FALSE
    /\ videos' = IF outcome = "finished" THEN Append(videos, NextPath) ELSE videos
    /\ saved' = IF outcome = "finished" THEN Append(saved, NextPath) ELSE saved
    /\ alert' = CASE outcome = "finished" ->
                        IF variant = 2 THEN SavedAlert ELSE alert
                  [] outcome = "error" -> RecordingErrorAlert
                  [] OTHER -> alert
    /\ isRecording' = IF outcome = "error" /\ stillMounted THEN FALSE
                                                           ELSE isRecording
    /\ error' = IF outcome = "error" /\ stillMounted /\ variant = 1
                THEN RecordingErrorText ELSE error

\* the state after the first render; the effect has called setupOrientation,
\* which is suspended at `await ScreenOrientation.unlockAsync()`
Init ==
    /\ variant \in Variants
    /\ screenWidth \in 1..MaxScreen
    /\ screenHeight \in 1..MaxScreen
    /\ selectedMode = "vertical"
    /\ deviceOrientation = "PORTRAIT_UP"
    /\ isRecording = FALSE
    /\ error = NoError
    /\ cameraKey = 0
    /\ aspectRatio = Viewport(variant, "vertical", FALSE, screenWidth, screenHeight)
    /\ mounted = TRUE
    /\ setupPc = "unlockAsync"
    /\ subscription = FALSE
    /\ listenerRegistered = FALSE
    /\ timers = 0
    /\ orientationGuidance = Guidance(variant, "vertical", "PORTRAIT_UP")
    /\ hasPermission \in BOOLEAN
    /\ device \in BOOLEAN
    /\ isFocused = TRUE
    /\ appState = "active"
    /\ camRecording = FALSE
    /\ stops = <<>>
    /\ videos = <<>>
    /\ saved = <<>>
    /\ alert = NoAlert

\* unlockAsync resolves: setupOrientation adds the listener and suspends at
\* `await ScreenOrientation.getOrientationAsync()`
UnlockResolved ==
    /\ setupPc = "unlockAsync"
    /\ subscription' = TRUE
    /\ listenerRegistered' = TRUE
    /\ setupPc' = "getOrientationAsync"
    /\ UNCHANGED <<variant, screenWidth, screenHeight, selectedMode,
                   deviceOrientation, isRecording, error, cameraKey,
                   aspectRatio, mounted, timers, orientationGuidance,
                   hostVars, camVars>>

\* unlockAsync or getOrientationAsync rejects: the catch block reports it
\* (setError in the first screen, Alert.alert in the second)
SetupFailed ==
    /\ setupPc \in {"unlockAsync", "getOrientationAsync"}
    /\ setupPc' = "failed"
    /\ error' = IF variant = 1 /\ mounted THEN OrientationError ELSE error
    /\ alert' = IF variant = 2 THEN OrientationError ELSE alert
    /\ UNCHANGED <<variant, screenWidth, screenHeight, selectedMode,
                   deviceOrientation, isRecording, cameraKey, aspectRatio,
                   mounted, subscription, listenerRegistered, timers,
                   orientationGuidance, hostVars, camRecording, stops,
                   videos, saved>>

\* getOrientationAsync resolves with the current orientation
GetOrientationResolved ==
    /\ setupPc = "getOrientationAsync"
    /\ \E currentOrientation \in Orientation :
          /\ deviceOrientation' =
                IF mounted THEN currentOrientation ELSE deviceOrientation
          /\ aspectRatio' =
                IF mounted THEN Render(selectedMode, currentOrientation)
                           ELSE aspectRatio
          /\ orientationGuidance' =
                IF mounted THEN Guidance(variant, selectedMode, currentOrientation)
                           ELSE orientationGuidance
    /\ setupPc' = "done"
    /\ UNCHANGED <<variant, screenWidth, screenHeight, selectedMode,
                   isRecording, error, cameraKey, mounted, subscription,
                   listenerRegistered, timers, hostVars, camVars>>

\* the registered listener is called with an orientation change
OrientationChanged ==
    /\ listenerRegistered
    /\ variant = 2 => timers < MaxTimers /\ cameraKey + timers < MaxCameraKey
    /\ \E orientation \in Orientation :
          /\ deviceOrientation' =
                IF mounted THEN orientation ELSE deviceOrientation
          /\ aspectRatio' =
                IF mounted THEN Render(selectedMode, orientation)
                           ELSE aspectRatio
          /\ orientationGuidance' =
                IF mounted THEN Guidance(variant, selectedMode, orientation)
                           ELSE orientationGuidance
    /\ timers' = IF variant = 2 THEN timers + 1 ELSE timers
    /\ UNCHANGED <<variant, screenWidth, screenHeight, selectedMode,
                   isRecording, error, cameraKey, mounted, setupPc,
                   subscription, listenerRegistered, hostVars, camVars>>

\* a timeout set by the second screen's listener expires: the new key
\* replaces the <Camera> element by a fresh one
CameraKeyTimeout ==
    /\ timers > 0
    /\ timers' = timers - 1
    /\ cameraKey' = IF mounted THEN cameraKey + 1 ELSE cameraKey
    /\ IF mounted /\ camRecording
       THEN \E outcome \in TeardownOutcomes : CameraDestroyed(outcome, TRUE)
       ELSE UNCHANGED <<camRecording, videos, saved, alert, isRecording, error>>
    /\ UNCHANGED <<variant, screenWidth, screenHeight, selectedMode,
                   deviceOrientation, aspectRatio, mounted, setupPc,
                   subscription, listenerRegistered, orientationGuidance,
                   hostVars, stops>>

\* the host changes the window size (rotation, resize); the component does
\* not subscribe to Dimensions, so nothing is rendered
DimensionsChanged ==
    /\ \E w \in 1..MaxScreen, h \in 1..MaxScreen :
          /\ <<w, h>> # <<screenWidth, screenHeight>>
          /\ screenWidth' = w
          /\ screenHeight' = h
    /\ UNCHANGED <<variant, selectedMode, deviceOrientation, isRecording,
                   error, cameraKey, aspectRatio, mounted, setupPc,
                   subscription, listenerRegistered, timers,
                   orientationGuidance, hostVars, camVars>>

\* selectMode(mode)
selectModeTo(mode) ==
    /\ CameraRef
    /\ (variant = 2 /\ isRecording) => Len(stops) < MaxStops
    /\ selectedMode' = mode
    /\ aspectRatio' = Render(mode, deviceOrientation)
    /\ orientationGuidance' = Guidance(variant, mode, deviceOrientation)
    /\ stops' = IF variant = 2 /\ isRecording
                THEN Append(stops, "selectMode") ELSE stops
    /\ isRecording' = IF variant = 2 /\ isRecording THEN FALSE ELSE isRecording
    /\ UNCHANGED <<variant, screenWidth, screenHeight, deviceOrientation,
                   error, cameraKey, mounted, setupPc, subscription,
                   listenerRegistered, timers, hostVars, camRecording,
                   videos, saved, alert>>

\* the user presses a mode button
selectMode == \E mode \in VideoMode : selectModeTo(mode)

\* the screen is unmounted: the effect's cleanup runs
Unmount ==
    /\ mounted
    /\ mounted' = FALSE
    /\ listenerRegistered' = IF subscription THEN FALSE ELSE listenerRegistered
    /\ IF camRecording
       THEN \E outcome \in TeardownOutcomes : CameraDestroyed(outcome, FALSE)
       ELSE UNCHANGED <<camRecording, videos, saved, alert, isRecording, error>>
    /\ UNCHANGED <<variant, screenWidth, screenHeight, selectedMode,
                   deviceOrientation, cameraKey, aspectRatio, setupPc,
                   subscription, timers, orientationGuidance, hostVars, stops>>

\* after a change of what the host supplies: a recording in progress ends
\* when its camera is no longer rendered or no longer active
CameraAfterHostChange ==
    IF camRecording
       /\ ~(device' /\ hasPermission' /\ isFocused' /\ appState' = "active")
    THEN \E outcome \in TeardownOutcomes : CameraDestroyed(outcome, mounted)
    ELSE UNCHANGED <<camRecording, videos, saved, alert, isRecording, error>>

\* the camera permission is granted or withdrawn
PermissionChanged ==
    /\ mounted
    /\ hasPermission' = ~hasPermission
    /\ UNCHANGED <<device, isFocused, appState>>
    /\ CameraAfterHostChange
    /\ UNCHANGED <<variant, screenWidth, screenHeight, selectedMode,
                   deviceOrientation, cameraKey, aspectRatio, mounted, setupPc,
                   subscription, listenerRegistered, timers,
                   orientationGuidance, stops>>

\* the permission effect's requestPermission() rejects
RequestPermissionFailed ==
    /\ mounted
    /\ ~hasPermission
    /\ error' = IF variant = 1 THEN PermissionError ELSE error
    /\ alert' = IF variant = 2 THEN PermissionError ELSE alert
    /\ UNCHANGED <<variant, screenWidth, screenHeight, selectedMode,
                   deviceOrientation, isRecording, cameraKey, aspectRatio,
                   mounted, setupPc, subscription, listenerRegistered, timers,
                   orientationGuidance, hostVars, camRecording, stops,
                   videos, saved>>

\* the back camera device appears or disappears
DeviceChanged ==
    /\ mounted
    /\ device' = ~device
    /\ UNCHANGED <<hasPermission, isFocused, appState>>
    /\ CameraAfterHostChange
    /\ UNCHANGED <<variant, screenWidth, screenHeight, selectedMode,
                   deviceOrientation, cameraKey, aspectRatio, mounted, setupPc,
                   subscription, listenerRegistered, timers,
                   orientationGuidance, stops>>

\* the screen gains or loses the navigation focus
FocusChanged ==
    /\ mounted
    /\ isFocused' = ~isFocused
    /\ UNCHANGED <<hasPermission, device, appState>>
    /\ CameraAfterHostChange
    /\ UNCHANGED <<variant, screenWidth, screenHeight, selectedMode,
                   deviceOrientation, cameraKey, aspectRatio, mounted, setupPc,
                   subscription, listenerRegistered, timers,
                   orientationGuidance, stops>>

\* the application goes to the background or comes back
AppStateChanged ==
    /\ mounted
    /\ appState' = IF appState = "active" THEN "background" ELSE "active"
    /\ UNCHANGED <<hasPermission, device, isFocused>>
    /\ CameraAfterHostChange
    /\ UNCHANGED <<variant, screenWidth, screenHeight, selectedMode,
                   deviceOrientation, cameraKey, aspectRatio, mounted, setupPc,
                   subscription, listenerRegistered, timers,
                   orientationGuidance, stops>>

Next ==
    \/ UnlockResolved
    \/ SetupFailed
    \/ GetOrientationResolved
    \/ OrientationChanged
    \/ CameraKeyTimeout
    \/ DimensionsChanged
    \/ selectMode
    \/ Unmount
    \/ PermissionChanged
    \/ RequestPermissionFailed
    \/ DeviceChanged
    \/ FocusChanged
    \/ AppStateChanged

Spec == Init /\ [][Next]_vars

----------------------------------------------------------------------------
(* Recording specification: the screen is mounted with its camera rendered *)
(* and its orientation listener registered; the user records, stops and    *)
(* selects modes, and the camera answers.                                  *)

\* what camera.startRecording does: it returns or it throws
StartOutcomes == {"started", "throws"}

\* startRecording when camera.startRecording does `outcome`
startRecordingOutcome(outcome) ==
    /\ CameraRef
    /\    CASE outcome = "throws" ->
                  \* the catch block
                  /\ alert' = StartErrorAlert
                  /\ isRecording' = FALSE
                  /\ error' = IF variant = 1 THEN StartErrorText ELSE error
                  /\ UNCHANGED camRecording
            [] outcome = "started" /\ ~camRecording ->
                  /\ Len(videos) < MaxVideos
                  /\ isRecording' = TRUE
                  /\ camRecording' = TRUE
                  /\ UNCHANGED <<alert, error>>
            [] outcome = "started" /\ camRecording ->
                  \* the camera is still recording: it refuses the second
                  \* recording through this call's onRecordingError
                  /\ alert' = RecordingErrorAlert
                  /\ isRecording' = FALSE
                  /\ error' = IF variant = 1 THEN RecordingErrorText ELSE error
                  /\ UNCHANGED camRecording
    /\ UNCHANGED <<variant, screenWidth, screenHeight, selectedMode,
                   deviceOrientation, cameraKey, aspectRatio, mounted, setupPc,
                   subscription, listenerRegistered, timers,
                   orientationGuidance, hostVars, stops, videos, saved>>

startRecording == \E outcome \in StartOutcomes : startRecordingOutcome(outcome)

\* up to the await: the stop request is sent to the camera
stopRecording ==
    IF ~CameraRef \/ ~isRecording
    THEN UNCHANGED vars
    ELSE /\ Len(stops) < MaxStops
         /\ stops' = Append(stops, "stopRecording")
         /\ UNCHANGED <<variant, screenWidth, screenHeight, selectedMode,
                        deviceOrientation, isRecording, error, cameraKey,
                        aspectRatio, mounted, setupPc, subscription,
                        listenerRegistered, timers, orientationGuidance,
                        hostVars, camRecording, videos, saved, alert>>

\* the user presses the record button
toggleRecording ==
    /\ CameraRef
    /\ IF isRecording THEN stopRecording ELSE startRecording

\* StopResolved with an onRecordingFinished that does not save the video
StopResolved_NoSave ==
    /\ stops # <<>>
    /\ camRecording
    /\ camRecording' = FALSE
    /\ stops' = Tail(stops)
    /\ videos' = Append(videos, NextPath)
    /\ alert' = IF variant = 2 THEN SavedAlert ELSE alert
    /\ isRecording' = IF Head(stops) = "stopRecording" /\ mounted
                      THEN FALSE ELSE isRecording
    /\ UNCHANGED <<variant, screenWidth, screenHeight, selectedMode,
                   deviceOrientation, error, cameraKey, aspectRatio, mounted,
                   setupPc, subscription, listenerRegistered, timers,
                   orientationGuidance, hostVars, saved>>

\* the oldest pending camera.stopRecording() resolves: the recording ends,
\* the camera calls onRecordingFinished and the awaiting caller continues
StopResolved ==
    /\ stops # <<>>
    /\ camRecording
    /\ camRecording' = FALSE
    /\ stops' = Tail(stops)
    /\ videos' = Append(videos, NextPath)
    /\ saved' = Append(saved, NextPath)
    /\ alert' = IF variant = 2 THEN SavedAlert ELSE alert
    /\ isRecording' = IF Head(stops) = "stopRecording" /\ mounted
                      THEN FALSE ELSE isRecording
    /\ UNCHANGED <<variant, screenWidth, screenHeight, selectedMode,
                   deviceOrientation, error, cameraKey, aspectRatio, mounted,
                   setupPc, subscription, listenerRegistered, timers,
                   orientationGuidance, hostVars>>

\* StopRejected with a catch block that also clears the recording flag
StopRejected_ClearsFlag ==
    /\ stops # <<>>
    /\ stops' = Tail(stops)
    /\ isRecording' = IF Head(stops) = "stopRecording" /\ mounted
                      THEN FALSE ELSE isRecording
    /\ error' = IF Head(stops) = "stopRecording" /\ variant = 1 /\ mounted
                THEN StopErrorText ELSE error
    /\ alert' = IF Head(stops) = "stopRecording" /\ variant = 2
                THEN StopErrorText ELSE alert
    /\ UNCHANGED <<variant, screenWidth, screenHeight, selectedMode,
                   deviceOrientation, cameraKey, aspectRatio,
                   mounted, setupPc, subscription, listenerRegistered, timers,
                   orientationGuidance, hostVars, camRecording, videos, saved>>

\* the oldest pending camera.stopRecording() rejects: the caller's catch
\* reports it (stopRecording) or logs it (selectMode)
StopRejected ==
    /\ stops # <<>>
    /\ stops' = Tail(stops)
    /\ error' = IF Head(stops) = "stopRecording" /\ variant = 1 /\ mounted
                THEN StopErrorText ELSE error
    /\ alert' = IF Head(stops) = "stopRecording" /\ variant = 2
                THEN StopErrorText ELSE alert
    /\ UNCHANGED <<variant, screenWidth, screenHeight, selectedMode,
                   deviceOrientation, isRecording, cameraKey, aspectRatio,
                   mounted, setupPc, subscription, listenerRegistered, timers,
                   orientationGuidance, hostVars, camRecording, videos, saved>>

\* onRecordingError without its setIsRecording(false)
onRecordingError_KeepsFlag ==
    /\ camRecording
    /\ camRecording' = FALSE
    /\ alert' = RecordingErrorAlert
    /\ error' = IF variant = 1 /\ mounted THEN RecordingErrorText ELSE error
    /\ UNCHANGED <<variant, screenWidth, screenHeight, selectedMode,
                   deviceOrientation, isRecording, cameraKey, aspectRatio,
                   mounted, setupPc, subscription, listenerRegistered, timers,
                   orientationGuidance, hostVars, stops, videos, saved>>

\* the camera fails while recording and calls onRecordingError
onRecordingError ==
    /\ camRecording
    /\ camRecording' = FALSE
    /\ alert' = RecordingErrorAlert
    /\ isRecording' = IF mounted THEN FALSE ELSE isRecording
    /\ error' = IF variant = 1 /\ mounted THEN RecordingErrorText ELSE error
    /\ UNCHANGED <<variant, screenWidth, screenHeight, selectedMode,
                   deviceOrientation, cameraKey, aspectRatio, mounted, setupPc,
                   subscription, listenerRegistered, timers,
                   orientationGuidance, hostVars, stops, videos, saved>>

InitRec ==
    /\ variant \in Variants
    /\ screenWidth = 1
    /\ screenHeight = MaxScreen
    /\ selectedMode = "vertical"
    /\ deviceOrientation = "PORTRAIT_UP"
    /\ isRecording = FALSE
    /\ error = NoError
    /\ cameraKey = 0
    /\ aspectRatio = Viewport(variant, "vertical", FALSE, screenWidth, screenHeight)
    /\ mounted = TRUE
    /\ setupPc = "done"
    /\ subscription = TRUE
    /\ listenerRegistered = TRUE
    /\ timers = 0
    /\ orientationGuidance = Guidance(variant, "vertical", "PORTRAIT_UP")
    /\ hasPermission = TRUE
    /\ device = TRUE
    /\ isFocused = TRUE
    /\ appState = "active"
    /\ camRecording = FALSE
    /\ stops = <<>>
    /\ videos = <<>>
    /\ saved = <<>>
    /\ alert = NoAlert

NextRec ==
    \/ toggleRecording
    \/ StopResolved
    \/ StopRejected
    \/ onRecordingError
    \/ selectMode
    \/ OrientationChanged
    \/ CameraKeyTimeout

SpecRec == InitRec /\ [][NextRec]_vars

----------------------------------------------------------------------------
(* Properties of the calculators, checked under SpecCalc *)

\* the calculator of the drawn screen has been evaluated
Evaluated == aspectRatio # NotEvaluated

Landscape == isLandscape(deviceOrientation)

\* C1: in Square mode the viewport is a square whose side is the smaller
\* screen extent, for both calculators and both values of the orientation
\* flag, also when the flag disagrees with the shape of the screen.
C1_SquareIsSmallerExtent ==
    (Evaluated /\ selectedMode = "square") =>
        /\ aspectRatio.width = aspectRatio.height
        /\ aspectRatio.width = Px(Min(screenWidth, screenHeight))

\* C2: in every mode and orientation the viewport does not exceed the
\* screen: width <= screenWidth and height <= screenHeight.
C2_ViewportWithinScreen ==
    Evaluated =>
        /\ aspectRatio.width <= Px(screenWidth)
        /\ aspectRatio.height <= Px(screenHeight)

\* C3: Horizontal mode in landscape.  If screenWidth / (16/9) > screenHeight
\* the viewport is {screenHeight * 16/9, screenHeight}; otherwise, the
\* boundary screenWidth / (16/9) = screenHeight included, it is
\* {screenWidth, screenWidth / (16/9)}.  Either way it fits the screen.
C3_HorizontalLandscapeFit ==
    (Evaluated /\ selectedMode = "horizontal" /\ Landscape) =>
        /\ IF 9 * screenWidth > 16 * screenHeight
           THEN /\ aspectRatio.height = Px(screenHeight)
                /\ 9 * aspectRatio.width = 16 * Px(screenHeight)
           ELSE /\ aspectRatio.width = Px(screenWidth)
                /\ 16 * aspectRatio.height = 9 * Px(screenWidth)
        /\ aspectRatio.width <= Px(screenWidth)
        /\ aspectRatio.height <= Px(screenHeight)

\* the boundary case of C3: a 16 x 9 screen gives the viewport {16, 9}
C3_Witness ==
    /\ Evaluated /\ selectedMode = "horizontal" /\ Landscape
    /\ screenWidth = 16 /\ screenHeight = 9
    /\ aspectRatio = [width |-> Px(16), height |-> Px(9)]

\* C4: Vertical mode in landscape: height = screenHeight and
\* width = screenHeight * 9/16, whatever screenWidth is.
C4_VerticalLandscape ==
    (Evaluated /\ selectedMode = "vertical" /\ Landscape) =>
        /\ aspectRatio.height = Px(screenHeight)
        /\ 16 * aspectRatio.width = 9 * Px(screenHeight)

\* a 4 x 16 screen flagged landscape: the viewport is {9, 16}
C4_Witness ==
    /\ Evaluated /\ selectedMode = "vertical" /\ Landscape
    /\ screenWidth = 4 /\ screenHeight = 16
    /\ aspectRatio = [width |-> Px(9), height |-> Px(16)]

\* C5: Vertical mode in portrait (not landscape): width = screenWidth and
\* height = screenWidth * 16/9, whatever screenHeight is.
C5_VerticalPortrait ==
    (Evaluated /\ selectedMode = "vertical" /\ ~Landscape) =>
        /\ aspectRatio.width = Px(screenWidth)
        /\ 9 * aspectRatio.height = 16 * Px(screenWidth)

\* a 9 x 12 screen in portrait: the viewport is {9, 16}
C5_Witness ==
    /\ Evaluated /\ selectedMode = "vertical" /\ ~Landscape
    /\ screenWidth = 9 /\ screenHeight = 12
    /\ aspectRatio = [width |-> Px(9), height |-> Px(16)]

\* C6: Horizontal mode in portrait (not landscape): width = screenWidth and
\* height = screenWidth * 9/16, whatever screenHeight is.
C6_HorizontalPortrait ==
    (Evaluated /\ selectedMode = "horizontal" /\ ~Landscape) =>
        /\ aspectRatio.width = Px(screenWidth)
        /\ 16 * aspectRatio.height = 9 * Px(screenWidth)

\* a 16 x 5 screen in portrait: the viewport is {16, 9}
C6_Witness ==
    /\ Evaluated /\ selectedMode = "horizontal" /\ ~Landscape
    /\ screenWidth = 16 /\ screenHeight = 5
    /\ aspectRatio = [width |-> Px(16), height |-> Px(9)]

\* C9: the viewport has the shape of the mode in both orientations:
\* width : height is 9 : 16 for Vertical, 16 : 9 for Horizontal and 1 : 1
\* for Square.
C9_ViewportHasModeShape ==
    Evaluated =>
        /\ selectedMode = "vertical" =>
              16 * aspectRatio.width = 9 * aspectRatio.height
        /\ selectedMode = "horizontal" =>
              9 * aspectRatio.width = 16 * aspectRatio.height
        /\ selectedMode = "square" =>
              aspectRatio.width = aspectRatio.height

\* Horizontal in landscape on a 16 x 8 screen: the height-constrained
\* candidate {8 * 16/9, 8} is chosen and is 16 : 9
C9_Witness ==
    /\ Evaluated /\ selectedMode = "horizontal" /\ Landscape
    /\ screenWidth = 16 /\ screenHeight = 8
    /\ aspectRatio.height = Px(8)
    /\ aspectRatio.width < Px(16)
    /\ 9 * aspectRatio.width = 16 * aspectRatio.height

C11_CalculatorIsTotal ==
    Evaluated =>
        /\ aspectRatio.width > 0
        /\ aspectRatio.height > 0
        /\ deviceOrientation \notin {"LANDSCAPE_LEFT", "LANDSCAPE_RIGHT"} =>
              aspectRatio = Viewport(variant, selectedMode, FALSE,
                                     screenWidth, screenHeight)

\* Horizontal with the orientation UNKNOWN on a 16 x 1 screen: the portrait
\* branch applies and returns {16, 9}
C11_Witness ==
    /\ Evaluated /\ selectedMode = "horizontal"
    /\ deviceOrientation = "UNKNOWN"
    /\ screenWidth = 16 /\ screenHeight = 1
    /\ aspectRatio = [width |-> Px(16), height |-> Px(9)]

\* the guidance memo of the drawn screen has been evaluated
GuidanceEvaluated == orientationGuidance # GuidanceNotEvaluated

\* C17: in the first screen the guidance text is non-empty exactly when the
\* mode is Vertical and the orientation is neither PORTRAIT_UP nor
\* PORTRAIT_DOWN, or the mode is Horizontal and the orientation is neither
\* LANDSCAPE_LEFT nor LANDSCAPE_RIGHT; for Square it is always empty.
C17_GuidanceWhenOrientationUnsuited ==
    (variant = 1 /\ GuidanceEvaluated) =>
        /\ orientationGuidance # "" <=>
              \/ /\ selectedMode = "vertical"
                 /\ deviceOrientation \notin {"PORTRAIT_UP", "PORTRAIT_DOWN"}
              \/ /\ selectedMode = "horizontal"
                 /\ deviceOrientation \notin {"LANDSCAPE_LEFT", "LANDSCAPE_RIGHT"}
        /\ selectedMode = "square" => orientationGuidance = ""

\* Vertical with the orientation UNKNOWN: the guidance asks for portrait
C17_Witness ==
    /\ variant = 1 /\ GuidanceEvaluated
    /\ selectedMode = "vertical"
    /\ deviceOrientation = "UNKNOWN"
    /\ orientationGuidance = "Rotate to portrait for optimal vertical video"

----------------------------------------------------------------------------
(* Properties of the recording, checked under SpecRec *)

\* C12: every video the camera reports as finished is passed to the media
\* library exactly once, and nothing else is: no save request is issued for
\* a recording that ended in an error or whose start threw.
C12_FinishedVideosAreSaved ==
    saved = videos

\* a first recording was finished and saved, a second one ended in an error
C12_Witness ==
    /\ videos = <<1>>
    /\ saved = <<1>>
    /\ ~camRecording
    /\ alert = RecordingErrorAlert

\* C13: whenever the camera is recording the isRecording flag is true.
C13_RecordingImpliesFlag ==
    camRecording => isRecording

\* the recording in progress ends without a finished video although its
\* camera element stays: the camera called onRecordingError
RecordingFails ==
    /\ camRecording /\ ~camRecording'
    /\ videos' = videos
    /\ cameraKey' = cameraKey

\* C14: when camera.startRecording throws or the camera calls
\* onRecordingError, an alert is shown and isRecording is false afterwards
\* (the first screen also stores the error text), so that the record button
\* is back to REC.
C14_RecordingFailureSurfaced ==
    [][/\ startRecordingOutcome("throws") =>
             /\ alert' = StartErrorAlert
             /\ ~isRecording'
             /\ variant = 1 => error' = StartErrorText
       /\ RecordingFails =>
             /\ alert' = RecordingErrorAlert
             /\ ~isRecording'
             /\ variant = 1 => error' = RecordingErrorText]_vars

\* a recording has failed: the alert is up, the flag is down, the camera
\* is idle and the record button can start a new recording
C14_Witness ==
    /\ alert = RecordingErrorAlert
    /\ ~isRecording
    /\ ~camRecording
    /\ videos = <<>>
    /\ variant = 1 => error = RecordingErrorText
    /\ ENABLED startRecordingOutcome("started")

\* a stop request of stopRecording is sent to the camera
StopRequested ==
    /\ Len(stops') = Len(stops) + 1
    /\ stops'[Len(stops')] = "stopRecording"

\* the pending stop request of stopRecording is settled
StopSettled ==
    /\ stops # <<>>
    /\ Head(stops) = "stopRecording"
    /\ stops' = Tail(stops)

\* C15: stopRecording sends a stop request only when a camera exists and
\* isRecording is true, and sending it leaves isRecording as it is;
\* isRecording becomes false when the request succeeds, and when it fails
\* isRecording stays as it is and the failure is reported.
C15_StopChangesFlagOnSuccessOnly ==
    [][/\ StopRequested => (CameraRef /\ isRecording /\ isRecording')
       /\ (StopSettled /\ videos' # videos) => ~isRecording'
       /\ (StopSettled /\ videos' = videos) =>
             /\ isRecording' = isRecording
             /\ UNCHANGED <<camRecording, selectedMode, saved>>
             /\ IF variant = 1 THEN error' = StopErrorText
                               ELSE alert' = StopErrorText]_vars

\* a stop request of stopRecording has failed: the camera still records,
\* the flag is still true and the record button sends a new stop request
C15_Witness ==
    /\ isRecording
    /\ camRecording
    /\ stops = <<>>
    /\ IF variant = 1 THEN error = StopErrorText ELSE alert = StopErrorText

\* C16: in the second screen selectMode(mode) sets selectedMode to mode; if
\* isRecording is true it sends a stop request and clears isRecording,
\* otherwise it leaves isRecording and the camera alone; and the recording
\* in progress does not continue across the mode change: it is over once
\* the stop request of selectMode is settled.
C16_NoRecordingAcrossModeChange ==
    [][/\ \A mode \in VideoMode :
             (variant = 2 /\ selectModeTo(mode)) => selectedMode' = mode
       /\ (variant = 2 /\ selectMode) =>
             /\ isRecording =>
                   /\ stops' = Append(stops, "selectMode")
                   /\ ~isRecording'
             /\ ~isRecording => UNCHANGED <<isRecording, stops>>
       /\ (variant = 2 /\ stops # <<>> /\ Head(stops) = "selectMode"
           /\ stops' = Tail(stops)) => ~camRecording']_vars

----------------------------------------------------------------------------
(* Properties of the mounted screen, checked under Spec *)

\* C7: the size applied to the camera surface is the calculator's result
\* for the current mode, orientation flag and screen size: a screen size
\* read by an earlier computation is not reused after the screen changed.
C7_AppliedViewportIsCurrent ==
    mounted =>
        aspectRatio = Viewport(variant, selectedMode, Landscape,
                               screenWidth, screenHeight)

\* C8: after the unmount no orientation listener of this screen is
\* registered, in every interleaving of setupOrientation with the cleanup.
C8_ListenerReleasedOnUnmount ==
    ~mounted => ~listenerRegistered

\* C18: whenever the camera preview and the controls are rendered, the
\* permission is granted, a camera device exists and the screen is focused.
C18_CameraContentOnlyWhenFocused ==
    (mounted /\ CameraContentRendered) =>
        (hasPermission /\ device /\ isFocused)

====
